---- MODULE Spec2Model ----
(***************************************************************************)
(* A model of the storefront bot's store (storage.py): the service         *)
(* catalog persisted in services.json, the welcome image reference         *)
(* persisted in welcome_image.json, and the in-memory orders, sessions and *)
(* feedback; and of the handlers (handlers.py) that write to the store.    *)
(*                                                                         *)
(* Python values are modelled as follows.                                  *)
(*   - a price is a record [kind, n]: kind "num" is the number n/100 (an   *)
(*     int or a float that a double holds exactly); kind "2^53+" is the    *)
(*     number 2^53 + n; kind "10^400" is the int 10**400; kind "str" is a  *)
(*     value that is no int and no float; kind "None" is None;             *)
(*   - a dict name -> price is a function whose domain is the key set;     *)
(*   - a file is a record [exists, readable, kind, map] where kind says    *)
(*     what its text is: "empty" (nothing but white space), "garbage"      *)
(*     (text json cannot parse, a partial write included) or "json" (the   *)
(*     dump of map).                                                       *)
(***************************************************************************)
EXTENDS Integers, Sequences, FiniteSets, Bags, TLC

VARIABLES
    up,            \* the bot process is running (a Storage object exists)
    services,      \* Storage._services
    wimg,          \* Storage._welcome_image_file_id
    svcFile,       \* the file services.json
    tmpFile,       \* the file services.json.temp
    imgFile,       \* the file welcome_image.json
    writable,      \* the file system accepts creating and writing files
    saved,         \* history: the mapping of the last save that reported success
    orders,        \* Storage.orders
    clock,         \* datetime.now(), in seconds
    user_sessions, \* Storage.user_sessions
    feedback,      \* Storage.feedback
    fbCalls,       \* history: the number of add_feedback calls made on the object
    messages,      \* the bag of the inline keyboards of the messages the chats hold
    last           \* observation: the last call, its arguments and its result

vars == <<up, services, wimg, svcFile, tmpFile, imgFile, writable, saved,
          orders, clock, user_sessions, feedback, fbCalls, messages, last>>

catalogVars == <<up, services, wimg, svcFile, tmpFile, imgFile, writable, saved>>
orderVars == <<orders, clock>>
sessionVars == <<user_sessions, feedback, fbCalls>>
chatVars == <<messages>>

----------------------------------------------------------------------------
(* Bounds of the model *)

\* the interpreter's recursion limit (sys.getrecursionlimit(), 1000 by default)
RecursionLimit == 3
\* the clock shows the seconds 0 to MaxClock
MaxClock == 1
\* at most this many orders are kept
MaxOrders == 1
\* at most this many feedback entries are kept
MaxFeedback == 2
\* at most this many messages show a kept keyboard
MaxMessages == 3

----------------------------------------------------------------------------
(* Python values *)

None == "None"

Num(n) == [kind |-> "num", n |-> n]
BigInt(k) == [kind |-> "2^53+", n |-> k]
HugeInt == [kind |-> "10^400", n |-> 0]
NotANumber == [kind |-> "str", n |-> 0]
NoPrice == [kind |-> "None", n |-> 0]

\* isinstance(price, (int, float))
IsIntOrFloat(p) == p.kind \in {"num", "2^53+", "10^400"}

\* price >= 0
NonNegative(p) ==
    \/ p.kind \in {"2^53+", "10^400"}
    \/ p.kind = "num" /\ p.n >= 0

\* float(price): the nearest double, ties to the even mantissa; between 2^53
\* and 2^54 doubles are the even integers.  float(10**400) raises OverflowError.
PyFloat(p) ==
    IF p.kind = "2^53+"
    THEN BigInt(IF p.n % 2 = 0 THEN p.n ELSE IF p.n % 4 = 1 THEN p.n - 1 ELSE p.n + 1)
    ELSE p

FloatOverflows(p) == p.kind = "10^400"

EmptyMap == [k \in {} |-> NoPrice]

\* d[k] = v
DictSet(d, k, v) == [x \in (DOMAIN d) \cup {k} |-> IF x = k THEN v ELSE d[x]]

\* del d[k]
DictDel(d, k) == [x \in (DOMAIN d) \ {k} |-> d[x]]

\* d.get(k)
DictGet(d, k) == IF k \in DOMAIN d THEN d[k] ELSE NoPrice

----------------------------------------------------------------------------
(* Files *)

NoFile == [exists |-> FALSE, readable |-> TRUE, kind |-> "empty", map |-> EmptyMap]
EmptyFile == [exists |-> TRUE, readable |-> TRUE, kind |-> "empty", map |-> EmptyMap]
GarbageFile == [exists |-> TRUE, readable |-> TRUE, kind |-> "garbage", map |-> EmptyMap]

UnreadableFile == [exists |-> TRUE, readable |-> FALSE, kind |-> "empty", map |-> EmptyMap]

\* json.dump(d, f) into a newly written file, closed
JsonFile(d) == [exists |-> TRUE, readable |-> TRUE, kind |-> "json", map |-> d]

NoImgFile == [exists |-> FALSE, kind |-> "empty", id |-> None]
EmptyImgFile == [exists |-> TRUE, kind |-> "empty", id |-> None]

\* json.dump({"file_id": id}, f) into a newly written file, closed
ImgJsonFile(id) == [exists |-> TRUE, kind |-> "json", id |-> id]

\* what a catalog read finds: the state of services.json
FileState(f) ==
    IF ~f.exists THEN "missing"
    ELSE IF ~f.readable THEN "unreadable"
    ELSE IF f.kind = "empty" THEN "empty"
    ELSE IF f.kind = "garbage" THEN "unparsable"
    ELSE "valid"

default_services ==
    [k \in {"Telegram Premium - 1 Month", "Telegram Premium - 3 Months",
            "Telegram Premium - 6 Months", "Telegram Premium - 1 Year",
            "Telegram Stars"} |->
        CASE k = "Telegram Premium - 1 Month" -> Num(499)
          [] k = "Telegram Premium - 3 Months" -> Num(1299)
          [] k = "Telegram Premium - 6 Months" -> Num(2499)
          [] k = "Telegram Premium - 1 Year" -> Num(4599)
          [] OTHER -> Num(999)]

----------------------------------------------------------------------------
(* The store's file operations.  A world w is the record                   *)
(* [services, wimg, file, tmp, img] of the Storage object's catalog fields *)
(* and the three files.                                                    *)

World == [services |-> services, wimg |-> wimg, file |-> svcFile,
          tmp |-> tmpFile, img |-> imgFile]

\* _initialize_storage that creates no services file
initialize_storage_no_defaults(w) ==
    IF ~w.img.exists /\ ~writable THEN [w EXCEPT !.services = EmptyMap, !.wimg = None]
    ELSE IF ~w.img.exists THEN [w EXCEPT !.img = ImgJsonFile(None)]
    ELSE w

\* Storage._initialize_storage: creates each file that does not exist; an
\* open() that fails ends the method and empties the object's fields.
initialize_storage(w) ==
    LET failed == [w EXCEPT !.services = EmptyMap, !.wimg = None]
        w1 == IF w.file.exists THEN w ELSE [w EXCEPT !.file = JsonFile(default_services)]
        w2 == IF w1.img.exists THEN w1 ELSE [w1 EXCEPT !.img = ImgJsonFile(None)]
    IN  IF (~w.file.exists \/ ~w.img.exists) /\ ~writable THEN failed ELSE w2

\* Storage._load_welcome_image
load_welcome_image(w) ==
    IF w.img.exists /\ w.img.kind = "json" THEN [w EXCEPT !.wimg = w.img.id] ELSE w

\* Storage._load_services, called at nesting depth `depth`.  The result is the
\* world, the exception that leaves the call ("none" when it returns) and the
\* deepest nesting reached.  The nested call does not end by itself when the
\* file stays empty, unparsable or missing: it ends at the interpreter's
\* recursion limit, and `strike` says where the RecursionError arises in the
\* frame at the limit: "try" inside its try block, which its own
\* `except Exception` catches (line 96), "call" before that, so that it reaches
\* the calling frame.
RECURSIVE load_services(_, _, _)
load_services(w, depth, strike) ==
    LET caught(x, d) == [w |-> [x EXCEPT !.services = EmptyMap], exc |-> "none", depth |-> d]
    IN  IF depth >= RecursionLimit
        THEN IF strike = "try" THEN caught(w, depth)
             ELSE [w |-> w, exc |-> "RecursionError", depth |-> depth]
        ELSE CASE FileState(w.file) = "valid" ->
                    [w |-> [w EXCEPT !.services = w.file.map], exc |-> "none", depth |-> depth]
               [] FileState(w.file) = "unreadable" -> caught(w, depth)
               [] FileState(w.file) = "unparsable" ->
                    \* lines 92-95: the nested call is made in the handler of
                    \* JSONDecodeError, which no except clause covers
                    load_services(initialize_storage(w), depth + 1, strike)
               [] OTHER ->
                    \* lines 84-91, empty or missing: the nested call is made
                    \* inside the try block
                    LET r == load_services(initialize_storage(w), depth + 1, strike)
                    IN  IF r.exc = "none" THEN r ELSE caught(r.w, r.depth)

\* _save_services without the temp file: services.json itself is opened for
\* writing, written and closed
save_services_steps_in_place(w) ==
    << [w EXCEPT !.file = EmptyFile],
       [w EXCEPT !.file = GarbageFile],
       [w EXCEPT !.file = JsonFile(w.services)],
       [w EXCEPT !.file = JsonFile(w.services)] >>

\* The states the files pass through in Storage._save_services, one per step:
\* the temp file opened for writing, partly written, written and closed, and
\* moved over services.json by os.replace.
save_services_steps(w) ==
    << [w EXCEPT !.tmp = EmptyFile],
       [w EXCEPT !.tmp = GarbageFile],
       [w EXCEPT !.tmp = JsonFile(w.services)],
       [w EXCEPT !.tmp = NoFile, !.file = JsonFile(w.services)] >>

\* _save_services that writes the temp file and never moves it over services.json
save_services_no_replace(w) ==
    IF ~writable THEN [w |-> w, ok |-> FALSE]
    ELSE [w |-> save_services_steps(w)[3], ok |-> TRUE]

\* Storage._save_services: when the temp file cannot be opened the files stay
\* as they are (the temp file cannot be removed either) and the result is False
save_services(w) ==
    IF ~writable THEN [w |-> w, ok |-> FALSE]
    ELSE [w |-> save_services_steps(w)[Len(save_services_steps(w))], ok |-> TRUE]

\* The states welcome_image.json passes through in Storage._save_welcome_image:
\* opened for writing (truncated), then written and closed.
save_welcome_image_steps(w) ==
    << [w EXCEPT !.img = EmptyImgFile],
       [w EXCEPT !.img = ImgJsonFile(w.wimg)] >>

\* Storage._save_welcome_image
save_welcome_image(w) ==
    IF ~writable THEN [w |-> w, ok |-> FALSE]
    ELSE [w |-> save_welcome_image_steps(w)[Len(save_welcome_image_steps(w))], ok |-> TRUE]

\* add_service that stores the price as given, without float()
add_service_update_as_given(w, name, price) ==
    [w EXCEPT !.services = DictSet(w.services, name, price)]

\* The mapping Storage.add_service stores before it saves
add_service_update(w, name, price) ==
    [w EXCEPT !.services = DictSet(w.services, name, PyFloat(price))]

\* Storage.add_service
add_service(w, name, price) ==
    IF name = "" \/ ~IsIntOrFloat(price) THEN [w |-> w, ok |-> FALSE]
    ELSE IF FloatOverflows(price) THEN [w |-> w, ok |-> FALSE]
    ELSE save_services(add_service_update(w, name, price))

\* The mapping Storage.remove_service stores before it saves
remove_service_update(w, name) ==
    [w EXCEPT !.services = DictDel(w.services, name)]

\* remove_service that saves and reports success whether or not the name is a key
remove_service_always(w, name) == save_services(remove_service_update(w, name))

\* Storage.remove_service
remove_service(w, name) ==
    IF name \in DOMAIN w.services
    THEN save_services(remove_service_update(w, name))
    ELSE [w |-> w, ok |-> FALSE]

\* Storage.get_services: every exception ends in `return {}`
get_services(w, strike) ==
    LET r1 == load_services(w, 0, strike)
        r2 == load_services(initialize_storage(r1.w), 0, strike)
    IN  IF r1.exc # "none"
        THEN [w |-> r1.w, ret |-> EmptyMap, exc |-> "none", depth |-> r1.depth]
        ELSE IF r1.w.services # EmptyMap
        THEN [w |-> r1.w, ret |-> r1.w.services, exc |-> "none", depth |-> r1.depth]
        ELSE IF r2.exc # "none"
        THEN [w |-> r2.w, ret |-> EmptyMap, exc |-> "none", depth |-> r2.depth]
        ELSE [w |-> r2.w, ret |-> r2.w.services, exc |-> "none", depth |-> r2.depth]

\* Storage.get_service_price: no try block, so what _load_services raises
\* leaves the method
get_service_price(w, name, strike) ==
    LET r == load_services(w, 0, strike)
    IN  IF r.exc # "none"
        THEN [w |-> r.w, ret |-> NoPrice, exc |-> r.exc, depth |-> r.depth]
        ELSE [w |-> r.w, ret |-> DictGet(r.w.services, name), exc |-> "none", depth |-> r.depth]

\* Storage.set_welcome_image
set_welcome_image(w, file_id) ==
    IF file_id = "" THEN [w |-> w, ok |-> FALSE]
    ELSE save_welcome_image([w EXCEPT !.wimg = file_id])

\* Storage.get_welcome_image
get_welcome_image(w) == w.wimg

\* Storage.__init__ over the files of world w: the object's fields start empty
new_storage(w, strike) ==
    LET w0 == [w EXCEPT !.services = EmptyMap, !.wimg = None]
    IN  load_services(load_welcome_image(initialize_storage(w0)), 0, strike)

----------------------------------------------------------------------------
(* The order store.  A time is a record [is, t]: "time" with the clock's    *)
(* value t, "None", or "missing" for a key the dict does not hold.  An      *)
(* order id f"ORD_{now}_{user_id}" is the record [ts, user] of its parts.   *)

Time(t) == [is |-> "time", t |-> t]
NoneTime == [is |-> "None", t |-> 0]
MissingKey == [is |-> "missing", t |-> 0]

\* f"ORD_{datetime.now().strftime('%Y%m%d%H%M%S')}_{user_id}"
OrderId(now, user_id) == [ts |-> now, user |-> user_id]

\* the id contains str(user_id) as its last part
IdContains(order_id, user_id) == order_id.user = user_id

\* {}: what get_order returns for an id that is no key of orders
NoOrder ==
    [user_id |-> 0, service |-> "", status |-> "", payment_status |-> "",
     payment_method |-> "", payment_confirmation_time |-> MissingKey,
     created_at |-> MissingKey, last_updated |-> MissingKey]

EmptyOrders == [k \in {} |-> NoOrder]

\* create_order that, for an id already stored, writes the new user, service
\* and creation time into the stored record and keeps its other fields
create_order_updates_existing(os, now, later, user_id, service) ==
    [id |-> OrderId(now, user_id),
     orders |-> IF OrderId(now, user_id) \in DOMAIN os
                THEN [os EXCEPT ![OrderId(now, user_id)].user_id = user_id,
                                ![OrderId(now, user_id)].service = service,
                                ![OrderId(now, user_id)].created_at = Time(later)]
                ELSE DictSet(os, OrderId(now, user_id),
                        [user_id |-> user_id, service |-> service, status |-> "pending",
                         payment_status |-> None, payment_method |-> None,
                         payment_confirmation_time |-> MissingKey,
                         created_at |-> Time(later), last_updated |-> MissingKey])]

\* create_order that leaves a record already stored under the id as it is
create_order_keeps_existing(os, now, later, user_id, service) ==
    [id |-> OrderId(now, user_id),
     orders |-> IF OrderId(now, user_id) \in DOMAIN os THEN os
                ELSE DictSet(os, OrderId(now, user_id),
                        [user_id |-> user_id, service |-> service, status |-> "pending",
                         payment_status |-> None, payment_method |-> None,
                         payment_confirmation_time |-> MissingKey,
                         created_at |-> Time(later), last_updated |-> MissingKey])]

\* Storage.create_order: the id, and orders with the new record under it.
\* The clock is read twice: `now` for the id (line 194) and `later` for
\* created_at (line 201).
create_order(os, now, later, user_id, service) ==
    [id |-> OrderId(now, user_id),
     orders |-> DictSet(os, OrderId(now, user_id),
                   [user_id |-> user_id, service |-> service, status |-> "pending",
                    payment_status |-> None, payment_method |-> None,
                    payment_confirmation_time |-> MissingKey,
                    created_at |-> Time(later), last_updated |-> MissingKey])]

\* Storage.get_order: the record (with payment_confirmation_time set to None
\* in the stored record when the key is missing), or {}
get_order(os, order_id) ==
    IF order_id \in DOMAIN os
    THEN LET o == os[order_id]
             n == IF o.payment_confirmation_time = MissingKey
                  THEN [o EXCEPT !.payment_confirmation_time = NoneTime] ELSE o
         IN  [orders |-> [os EXCEPT ![order_id] = n], ret |-> n]
    ELSE [orders |-> os, ret |-> NoOrder]

\* Storage.update_order_status
update_order_status(os, order_id, status) ==
    IF order_id \in DOMAIN os
    THEN [orders |-> [os EXCEPT ![order_id].status = status], ok |-> TRUE]
    ELSE [orders |-> os, ok |-> FALSE]

\* update_payment_method that leaves payment_confirmation_time as it is
update_payment_method_keeps_time(os, now, order_id, payment_method) ==
    IF order_id \in DOMAIN os
    THEN [orders |-> [os EXCEPT ![order_id].payment_method = payment_method,
                                ![order_id].payment_status = "pending",
                                ![order_id].last_updated = Time(now)],
          ok |-> TRUE]
    ELSE [orders |-> os, ok |-> FALSE]

\* Storage.update_payment_method
update_payment_method(os, now, order_id, payment_method) ==
    IF order_id \in DOMAIN os
    THEN [orders |-> [os EXCEPT ![order_id].payment_method = payment_method,
                                ![order_id].payment_status = "pending",
                                ![order_id].payment_confirmation_time = NoneTime,
                                ![order_id].last_updated = Time(now)],
          ok |-> TRUE]
    ELSE [orders |-> os, ok |-> FALSE]

\* update_payment_status that leaves payment_confirmation_time as it is for
\* a status other than 'confirmed'
update_payment_status_keeps_time(os, now, later, order_id, status) ==
    IF order_id \in DOMAIN os
    THEN [orders |-> [os EXCEPT ![order_id].payment_status = status,
                                ![order_id].payment_confirmation_time =
                                    IF status = "confirmed" THEN Time(now) ELSE @,
                                ![order_id].last_updated =
                                    IF status = "confirmed" THEN Time(later) ELSE Time(now)],
          ok |-> TRUE]
    ELSE [orders |-> os, ok |-> FALSE]

\* Storage.update_payment_status.  For the status 'confirmed' the clock is
\* read twice: `now` for payment_confirmation_time (line 238) and `later` for
\* last_updated (line 239); for every other status line 238 reads no clock
\* and last_updated is the first read, `now`.
update_payment_status(os, now, later, order_id, status) ==
    IF order_id \in DOMAIN os
    THEN [orders |-> [os EXCEPT ![order_id].payment_status = status,
                                ![order_id].payment_confirmation_time =
                                    IF status = "confirmed" THEN Time(now) ELSE NoneTime,
                                ![order_id].last_updated =
                                    IF status = "confirmed" THEN Time(later) ELSE Time(now)],
          ok |-> TRUE]
    ELSE [orders |-> os, ok |-> FALSE]

----------------------------------------------------------------------------
(* The session store.  user_sessions is a dict user_id -> dict key -> value. *)
(* A value is a record [is, id]: "order" with an order id (what the         *)
(* handlers keep under 'current_order'), "True" (what they keep under       *)
(* 'awaiting_welcome_image'), or "None".                                    *)

SessionOrder(order_id) == [is |-> "order", id |-> order_id]
SessionTrue == [is |-> "True", id |-> OrderId(0, 0)]
\* None: what dict.get returns for a key the dict does not hold
NoValue == [is |-> "None", id |-> OrderId(0, 0)]

EmptySession == [k \in {} |-> NoValue]
EmptySessions == [u \in {} |-> EmptySession]

\* Storage.set_user_session
set_user_session(us, user_id, key, value) ==
    LET d == IF user_id \in DOMAIN us THEN us[user_id] ELSE EmptySession
    IN  DictSet(us, user_id, DictSet(d, key, value))

\* bool(value) of a session value: False for None alone
truthy(value) == value # NoValue

\* Storage.get_user_session: user_sessions.get(user_id, {}).get(key)
get_user_session(us, user_id, key) ==
    IF user_id \in DOMAIN us
    THEN IF key \in DOMAIN us[user_id] THEN us[user_id][key] ELSE NoValue
    ELSE NoValue

\* clear_user_session that drops the user's 'current_order' and keeps the rest
clear_user_session_one_key(us, user_id) ==
    [sessions |-> IF user_id \in DOMAIN us
                  THEN [us EXCEPT ![user_id] = DictDel(@, "current_order")]
                  ELSE us,
     exc |-> "none"]

\* Storage.clear_user_session: user_sessions.pop(user_id, None); the default
\* makes pop return, not raise, for a user without a session
clear_user_session(us, user_id) ==
    [sessions |-> DictDel(us, user_id), exc |-> "none"]

----------------------------------------------------------------------------
(* The feedback store.  feedback is a list; the entry Python holds at index *)
(* i is feedback[i + 1] here.                                               *)

NoFeedback ==
    [id |-> 0, user_id |-> 0, text |-> "", status |-> "", created_at |-> MissingKey]

\* add_feedback whose id is the number of entries still pending
add_feedback_counts_pending(fb, now, user_id, feedback_text) ==
    LET n == Len(SelectSeq(fb, LAMBDA f : f.status = "pending"))
    IN  [id |-> n,
         feedback |-> Append(fb, [id |-> n, user_id |-> user_id,
                                  text |-> feedback_text, status |-> "pending",
                                  created_at |-> Time(now)])]

\* Storage.add_feedback
add_feedback(fb, now, user_id, feedback_text) ==
    [id |-> Len(fb),
     feedback |-> Append(fb, [id |-> Len(fb), user_id |-> user_id,
                              text |-> feedback_text, status |-> "pending",
                              created_at |-> Time(now)])]

\* Storage.get_pending_feedback
get_pending_feedback(fb) == SelectSeq(fb, LAMBDA f : f.status = "pending")

\* update_feedback_status that takes the id as a Python list index, where a
\* negative id counts from the end of the list
update_feedback_status_list_index(fb, feedback_id, status) ==
    IF 0 - Len(fb) <= feedback_id /\ feedback_id < Len(fb)
    THEN [feedback |-> [fb EXCEPT ![((feedback_id + Len(fb)) % Len(fb)) + 1].status = status],
          ok |-> TRUE]
    ELSE [feedback |-> fb, ok |-> FALSE]

\* Storage.update_feedback_status
update_feedback_status(fb, feedback_id, status) ==
    IF 0 <= feedback_id /\ feedback_id < Len(fb)
    THEN [feedback |-> [fb EXCEPT ![feedback_id + 1].status = status], ok |-> TRUE]
    ELSE [feedback |-> fb, ok |-> FALSE]

----------------------------------------------------------------------------
(* Inputs *)

UserIds == {42, 7}
OrderServices == {"X"}
\* config.STATUS_PENDING, STATUS_APPROVED, STATUS_REJECTED, STATUS_COMPLETED
OrderStatuses == {"pending", "approved", "rejected", "completed"}
PaymentStatuses == {"confirmed", "rejected"}
\* config.PAYMENT_METHODS
PAYMENT_METHODS == <<"TeleBirr", "CBE">>
PaymentMethods == {PAYMENT_METHODS[i] : i \in 1..Len(PAYMENT_METHODS)}
OrderUserIds == {42}
OrderMethods == {"CBE"}
Customers == {42}
OrderIds == {OrderId(t, u) : t \in 0..MaxClock, u \in OrderUserIds}

ServiceNames == {"", "X"}
PriceInputs == {Num(250), Num(-100), BigInt(1), HugeInt, NotANumber}
FileIds == {"", "img1", "img2"}
Strikes == {"try", "call"}

SessionKeys == {"current_order", "awaiting_welcome_image"}
SessionValues == {SessionTrue, SessionOrder(OrderId(0, 42))}
FeedbackTexts == {"hi"}
FeedbackStatuses == {"approved", "rejected"}
FeedbackIds == (0 - 1)..MaxFeedback

\* what another writer may leave in services.json
ExternalCatalog == [k \in {"Ext"} |-> Num(700)]
ExternalFiles == {EmptyFile, GarbageFile, JsonFile(ExternalCatalog)}

----------------------------------------------------------------------------
(* The observation of the last call *)

NoCall ==
    [op |-> "none", name |-> "", price |-> NoPrice,
     ok |-> FALSE,            \* the boolean a call returned
     retPrice |-> NoPrice,    \* what get_service_price returned
     retMap |-> EmptyMap,     \* what get_services returned; in a crash, the mapping being saved
     exc |-> "none",          \* the exception that left the call
     depth |-> 0,             \* the deepest nesting of _load_services; in a crash, the step
     pre |-> "valid",         \* FileState of services.json when the call was made
     absent |-> FALSE,        \* the name was no key of _services when the call was made
     afterAdd |-> NoPrice,    \* the price of the add_service(name, price) that returned
                              \* True as the call right before this one
     retId |-> None,          \* what get_welcome_image returned
     user |-> 0,              \* the user_id argument
     id |-> OrderId(0, 0),    \* the order id argument, or the id create_order returned
     order |-> NoOrder,       \* what get_order returned
     found |-> FALSE,         \* the order id was a key of orders when the call was made
     wasConfirmed |-> FALSE,  \* the order was confirmed, with its time, when the call was made
     value |-> NoValue,       \* the session value given, or what get_user_session returned
     fid |-> 0,               \* the feedback id argument, or the id add_feedback returned
     count |-> 0,             \* the number of add_feedback calls made before this call
     retSeq |-> <<>>,         \* what get_pending_feedback returned
     keys |-> {},             \* the keys the user's session held when the call was made
     afterClear |-> FALSE,    \* the call right before this one cleared this user's session
     offered |-> FALSE]       \* the sender's chat showed the button of the callback data

\* the observation of an event: its sender, and whether the pressed message
\* showed the button (a command, and a button of the menus, is always at hand)
Event(sender, offered) ==
    [NoCall EXCEPT !.op = "event", !.user = sender, !.offered = offered]

NotSaved == [ok |-> FALSE, map |-> EmptyMap]

Commit(w) ==
    /\ services' = w.services
    /\ wimg' = w.wimg
    /\ svcFile' = w.file
    /\ tmpFile' = w.tmp
    /\ imgFile' = w.img

----------------------------------------------------------------------------
(* Initial state: the Storage object built in a directory without files *)

Init ==
    /\ up = TRUE
    /\ services = default_services
    /\ wimg = None
    /\ svcFile = JsonFile(default_services)
    /\ tmpFile = NoFile
    /\ imgFile = ImgJsonFile(None)
    /\ writable = TRUE
    /\ saved = NotSaved
    /\ orders = EmptyOrders
    /\ clock = 0
    /\ user_sessions = EmptySessions
    /\ feedback = <<>>
    /\ fbCalls = 0
    /\ messages = EmptyBag
    /\ last = NoCall

----------------------------------------------------------------------------
(* Calls of the catalog store *)

AddService(name, price) ==
    LET r == add_service(World, name, price)
    IN  /\ up
        /\ Commit(r.w)
        /\ saved' = IF r.ok THEN [ok |-> TRUE, map |-> r.w.services] ELSE saved
        /\ last' = [NoCall EXCEPT !.op = "add_service", !.name = name, !.price = price,
                                  !.ok = r.ok, !.pre = FileState(svcFile),
                                  !.absent = name \notin DOMAIN services]
        /\ UNCHANGED <<up, writable, orders, clock, sessionVars, chatVars>>

RemoveService(name) ==
    LET r == remove_service(World, name)
    IN  /\ up
        /\ Commit(r.w)
        /\ saved' = IF r.ok THEN [ok |-> TRUE, map |-> r.w.services] ELSE saved
        /\ last' = [NoCall EXCEPT !.op = "remove_service", !.name = name,
                                  !.ok = r.ok, !.pre = FileState(svcFile),
                                  !.absent = name \notin DOMAIN services]
        /\ UNCHANGED <<up, writable, orders, clock, sessionVars, chatVars>>

GetServices(strike) ==
    LET r == get_services(World, strike)
    IN  /\ up
        /\ Commit(r.w)
        /\ last' = [NoCall EXCEPT !.op = "get_services", !.retMap = r.ret,
                                  !.exc = r.exc, !.depth = r.depth,
                                  !.pre = FileState(svcFile)]
        /\ UNCHANGED <<up, writable, saved, orders, clock, sessionVars, chatVars>>

GetServicePrice(name, strike) ==
    LET r == get_service_price(World, name, strike)
    IN  /\ up
        /\ Commit(r.w)
        /\ last' = [NoCall EXCEPT !.op = "get_service_price", !.name = name,
                                  !.retPrice = r.ret, !.exc = r.exc, !.depth = r.depth,
                                  !.pre = FileState(svcFile),
                                  !.absent = name \notin DOMAIN services,
                                  !.afterAdd = IF last.op = "add_service" /\ last.ok
                                                  /\ last.name = name
                                               THEN last.price ELSE NoPrice]
        /\ UNCHANGED <<up, writable, saved, orders, clock, sessionVars, chatVars>>

SetWelcomeImage(file_id) ==
    LET r == set_welcome_image(World, file_id)
    IN  /\ up
        /\ Commit(r.w)
        /\ last' = [NoCall EXCEPT !.op = "set_welcome_image", !.name = file_id, !.ok = r.ok]
        /\ UNCHANGED <<up, writable, saved, orders, clock, sessionVars, chatVars>>

GetWelcomeImage ==
    /\ up
    /\ last' = [NoCall EXCEPT !.op = "get_welcome_image", !.retId = get_welcome_image(World)]
    /\ UNCHANGED <<catalogVars, orders, clock, sessionVars, chatVars>>

----------------------------------------------------------------------------
(* The process: killed inside a save, and started again *)

\* The process is killed in _save_services after step k of the save that
\* add_service(name, price) or remove_service(name) makes.
CrashInSaveServices(w, k) ==
    /\ up
    /\ writable
    /\ k \in 1..Len(save_services_steps(w))
    /\ Commit([save_services_steps(w)[k] EXCEPT !.services = EmptyMap, !.wimg = None])
    /\ up' = FALSE
    /\ orders' = EmptyOrders
    /\ user_sessions' = EmptySessions /\ feedback' = <<>> /\ fbCalls' = 0
    /\ saved' = NotSaved
    /\ last' = [NoCall EXCEPT !.op = "crash in _save_services", !.depth = k,
                              !.retMap = w.services, !.pre = FileState(svcFile)]
    /\ UNCHANGED <<writable, clock, chatVars>>

CrashInAddService(name, price, k) ==
    /\ name # "" /\ IsIntOrFloat(price) /\ ~FloatOverflows(price)
    /\ CrashInSaveServices(add_service_update(World, name, price), k)

CrashInRemoveService(name, k) ==
    /\ name \in DOMAIN services
    /\ CrashInSaveServices(remove_service_update(World, name), k)

\* The process is killed in _save_welcome_image after step k of the save that
\* set_welcome_image(file_id) makes.
CrashInSetWelcomeImage(file_id, k) ==
    LET w == [World EXCEPT !.wimg = file_id]
    IN  /\ up
        /\ writable
        /\ file_id # ""
        /\ k \in 1..Len(save_welcome_image_steps(w))
        /\ Commit([save_welcome_image_steps(w)[k] EXCEPT !.services = EmptyMap, !.wimg = None])
        /\ up' = FALSE
        /\ orders' = EmptyOrders
        /\ user_sessions' = EmptySessions /\ feedback' = <<>> /\ fbCalls' = 0
        /\ saved' = NotSaved
        /\ last' = [NoCall EXCEPT !.op = "crash in _save_welcome_image", !.depth = k,
                                  !.name = file_id]
        /\ UNCHANGED <<writable, clock, chatVars>>

\* The process ends between two calls; what the object held is gone.
Stop ==
    /\ up
    /\ up' = FALSE
    /\ services' = EmptyMap
    /\ wimg' = None
    /\ orders' = EmptyOrders
    /\ user_sessions' = EmptySessions /\ feedback' = <<>> /\ fbCalls' = 0
    /\ last' = [NoCall EXCEPT !.op = "stop"]
    /\ UNCHANGED <<svcFile, tmpFile, imgFile, writable, saved, clock, chatVars>>

\* The process starts: Storage.__init__.  When _load_services raises, no
\* Storage object comes to exist and the process ends.
Restart(strike) ==
    LET r == new_storage(World, strike)
    IN  /\ ~up
        /\ up' = (r.exc = "none")
        /\ Commit(IF r.exc = "none" THEN r.w
                  ELSE [r.w EXCEPT !.services = EmptyMap, !.wimg = None])
        /\ last' = [NoCall EXCEPT !.op = "__init__", !.exc = r.exc, !.depth = r.depth,
                                  !.pre = FileState(svcFile)]
        /\ UNCHANGED <<writable, saved, orders, clock, sessionVars, chatVars>>

----------------------------------------------------------------------------
(* The environment: another writer of services.json, and the file system *)

ExternalWrite(f) ==
    /\ svcFile' = f
    /\ saved' = NotSaved
    /\ last' = [NoCall EXCEPT !.op = "external write"]
    /\ UNCHANGED <<up, services, wimg, tmpFile, imgFile, writable, orders, clock, sessionVars, chatVars>>

ExternalDelete ==
    /\ svcFile.exists
    /\ svcFile' = NoFile
    /\ saved' = NotSaved
    /\ last' = [NoCall EXCEPT !.op = "external delete"]
    /\ UNCHANGED <<up, services, wimg, tmpFile, imgFile, writable, orders, clock, sessionVars, chatVars>>

\* The file is made unreadable for the process.  What it holds can no longer
\* be observed by the process, so it is not kept.
ExternalChmod ==
    /\ svcFile.exists /\ svcFile.readable
    /\ svcFile' = UnreadableFile
    /\ saved' = NotSaved
    /\ last' = [NoCall EXCEPT !.op = "external chmod"]
    /\ UNCHANGED <<up, services, wimg, tmpFile, imgFile, writable, orders, clock, sessionVars, chatVars>>

ExternalDeleteImage ==
    /\ imgFile.exists
    /\ imgFile' = NoImgFile
    /\ last' = [NoCall EXCEPT !.op = "external delete image"]
    /\ UNCHANGED <<up, services, wimg, svcFile, tmpFile, writable, saved, orders, clock, sessionVars, chatVars>>

SetWritable(b) ==
    /\ writable # b
    /\ writable' = b
    /\ last' = [NoCall EXCEPT !.op = "file system"]
    /\ UNCHANGED <<up, services, wimg, svcFile, tmpFile, imgFile, saved, orders, clock, sessionVars, chatVars>>

----------------------------------------------------------------------------
(* Calls of the order store *)

WasConfirmed(order_id) ==
    /\ order_id \in DOMAIN orders
    /\ orders[order_id].payment_status = "confirmed"
    /\ orders[order_id].payment_confirmation_time.is = "time"

\* the seconds the clock can show
Clocks == 0..MaxClock

\* what a second read of the clock in the same call can show: any second,
\* that of the first read, a later one, or an earlier one when the clock
\* was set back between the two reads
LaterClocks == Clocks

\* Between two calls time passes, or the clock is set back: datetime.now() is
\* the naive local time, which repeats an hour when summer time ends and
\* jumps when the system clock is corrected.
Tick(t) ==
    /\ t \in Clocks
    /\ t # clock
    /\ clock' = t
    /\ last' = [NoCall EXCEPT !.op = "tick"]
    /\ UNCHANGED <<catalogVars, orders, sessionVars, chatVars>>

CreateOrder(user_id, service, later) ==
    LET r == create_order(orders, clock, later, user_id, service)
    IN  /\ up
        /\ clock' = later
        /\ Cardinality(DOMAIN r.orders) <= MaxOrders
        /\ orders' = r.orders
        /\ last' = [NoCall EXCEPT !.op = "create_order", !.user = user_id, !.name = service,
                                  !.id = r.id, !.found = r.id \in DOMAIN orders,
                                  !.wasConfirmed = WasConfirmed(r.id)]
        /\ UNCHANGED <<catalogVars, sessionVars, chatVars>>

GetOrder(order_id) ==
    LET r == get_order(orders, order_id)
    IN  /\ up
        /\ orders' = r.orders
        /\ last' = [NoCall EXCEPT !.op = "get_order", !.id = order_id, !.order = r.ret,
                                  !.found = order_id \in DOMAIN orders,
                                  !.user = IF last.op = "create_order" /\ last.id = order_id
                                           THEN last.user ELSE 0,
                                  !.name = IF last.op = "create_order" /\ last.id = order_id
                                           THEN last.name ELSE ""]
        /\ UNCHANGED <<catalogVars, clock, sessionVars, chatVars>>

UpdateOrderStatus(order_id, status) ==
    LET r == update_order_status(orders, order_id, status)
    IN  /\ up
        /\ orders' = r.orders
        /\ last' = [NoCall EXCEPT !.op = "update_order_status", !.id = order_id,
                                  !.name = status, !.ok = r.ok,
                                  !.found = order_id \in DOMAIN orders,
                                  !.wasConfirmed = WasConfirmed(order_id)]
        /\ UNCHANGED <<catalogVars, clock, sessionVars, chatVars>>

UpdatePaymentMethod(order_id, payment_method) ==
    LET r == update_payment_method(orders, clock, order_id, payment_method)
    IN  /\ up
        /\ orders' = r.orders
        /\ last' = [NoCall EXCEPT !.op = "update_payment_method", !.id = order_id,
                                  !.name = payment_method, !.ok = r.ok,
                                  !.found = order_id \in DOMAIN orders,
                                  !.wasConfirmed = WasConfirmed(order_id)]
        /\ UNCHANGED <<catalogVars, clock, sessionVars, chatVars>>

UpdatePaymentStatus(order_id, status, later) ==
    LET r == update_payment_status(orders, clock, later, order_id, status)
    IN  /\ up
        /\ clock' = IF order_id \in DOMAIN orders /\ status = "confirmed" THEN later ELSE clock
        /\ orders' = r.orders
        /\ last' = [NoCall EXCEPT !.op = "update_payment_status", !.id = order_id,
                                  !.name = status, !.ok = r.ok,
                                  !.found = order_id \in DOMAIN orders,
                                  !.wasConfirmed = WasConfirmed(order_id)]
        /\ UNCHANGED <<catalogVars, sessionVars, chatVars>>

\* The calls are made on the orders the store holds; NextUpdates has the
\* calls on an id it does not hold.  The second clock read of
\* update_payment_status is made for the status 'confirmed' only.
\* UpdateOrderStatus is left out of this next-state relation: no call of the
\* payment methods reads or writes an order's status.
NextOrders ==
    \/ \E t \in Clocks : Tick(t)
    \/ \E user_id \in OrderUserIds, service \in OrderServices, later \in LaterClocks :
          CreateOrder(user_id, service, later)
    \/ \E order_id \in DOMAIN orders : GetOrder(order_id)
    \/ \E order_id \in DOMAIN orders, m \in OrderMethods : UpdatePaymentMethod(order_id, m)
    \/ \E order_id \in DOMAIN orders, status \in PaymentStatuses :
          \E later \in (IF status = "confirmed" THEN LaterClocks ELSE {clock}) :
             UpdatePaymentStatus(order_id, status, later)

SpecOrders == Init /\ [][NextOrders]_vars

----------------------------------------------------------------------------
(* Calls of the session store *)

SetUserSession(user_id, key, value) ==
    /\ up
    /\ user_sessions' = set_user_session(user_sessions, user_id, key, value)
    /\ last' = [NoCall EXCEPT !.op = "set_user_session", !.user = user_id,
                              !.name = key, !.value = value,
                              !.found = user_id \in DOMAIN user_sessions]
    /\ UNCHANGED <<catalogVars, orderVars, feedback, fbCalls, chatVars>>

GetUserSession(user_id, key) ==
    /\ up
    /\ last' = [NoCall EXCEPT !.op = "get_user_session", !.user = user_id,
                              !.name = key,
                              !.value = get_user_session(user_sessions, user_id, key),
                              !.found = user_id \in DOMAIN user_sessions,
                              !.afterClear = (last.op = "clear_user_session"
                                              /\ last.user = user_id)]
    /\ UNCHANGED <<catalogVars, orderVars, sessionVars, chatVars>>

ClearUserSession(user_id) ==
    LET r == clear_user_session(user_sessions, user_id)
    IN  /\ up
        /\ user_sessions' = r.sessions
        /\ last' = [NoCall EXCEPT !.op = "clear_user_session", !.user = user_id,
                                  !.exc = r.exc,
                                  !.found = user_id \in DOMAIN user_sessions,
                                  !.keys = IF user_id \in DOMAIN user_sessions
                                           THEN DOMAIN user_sessions[user_id] ELSE {}]
        /\ UNCHANGED <<catalogVars, orderVars, feedback, fbCalls, chatVars>>

NextSessions ==
    \/ \E user_id \in UserIds, key \in SessionKeys, value \in SessionValues :
          SetUserSession(user_id, key, value)
    \/ \E user_id \in UserIds, key \in SessionKeys : GetUserSession(user_id, key)
    \/ \E user_id \in UserIds : ClearUserSession(user_id)

SpecSessions == Init /\ [][NextSessions]_vars

----------------------------------------------------------------------------
(* Calls of the feedback store *)

AddFeedback(user_id, feedback_text) ==
    LET r == add_feedback(feedback, clock, user_id, feedback_text)
    IN  /\ up
        /\ Len(feedback) < MaxFeedback
        /\ feedback' = r.feedback
        /\ fbCalls' = fbCalls + 1
        /\ last' = [NoCall EXCEPT !.op = "add_feedback", !.user = user_id,
                                  !.name = feedback_text, !.fid = r.id,
                                  !.count = fbCalls]
        /\ UNCHANGED <<catalogVars, orderVars, user_sessions, chatVars>>

GetPendingFeedback ==
    /\ up
    /\ last' = [NoCall EXCEPT !.op = "get_pending_feedback",
                              !.retSeq = get_pending_feedback(feedback)]
    /\ UNCHANGED <<catalogVars, orderVars, sessionVars, chatVars>>

UpdateFeedbackStatus(feedback_id, status) ==
    LET r == update_feedback_status(feedback, feedback_id, status)
    IN  /\ up
        /\ feedback' = r.feedback
        /\ last' = [NoCall EXCEPT !.op = "update_feedback_status", !.fid = feedback_id,
                                  !.name = status, !.ok = r.ok,
                                  !.found = feedback_id \in 0..(Len(feedback) - 1)]
        /\ UNCHANGED <<catalogVars, orderVars, user_sessions, fbCalls, chatVars>>


----------------------------------------------------------------------------
(* The update calls of the order store and of the feedback store together *)

NextUpdates ==
    \/ \E user_id \in OrderUserIds : CreateOrder(user_id, "X", clock)
    \/ \E order_id \in OrderIds, status \in OrderStatuses :
          UpdateOrderStatus(order_id, status)
    \/ \E order_id \in OrderIds, m \in PaymentMethods : UpdatePaymentMethod(order_id, m)
    \/ \E order_id \in OrderIds : UpdatePaymentStatus(order_id, "confirmed", clock)
    \/ \E text \in FeedbackTexts : AddFeedback(42, text)
    \/ \E feedback_id \in FeedbackIds : UpdateFeedbackStatus(feedback_id, "approved")

SpecUpdates == Init /\ [][NextUpdates]_vars

----------------------------------------------------------------------------
(* The dispatch layer (handlers.py, keyboards.py, config.py).  An event is  *)
(* a command or a callback query with its sender and, for a callback query, *)
(* the message whose button was pressed.  A button is the record            *)
(* [chat, tag, item_type, method, id] of the chat that shows it and of the  *)
(* parts of its callback data: f"{tag}_{item_type}_{id}" for the approval   *)
(* keyboard, f"payment_{method}" for the payment methods keyboard and       *)
(* f"confirm_payment_{method}_{id}" for the payment confirmation keyboard;  *)
(* back_to_menu and cancel_payment are the data of the second row of the    *)
(* two payment keyboards.  A keyboard is the set of its buttons, and        *)
(* messages is the bag of the keyboards of the messages the chats hold: two *)
(* messages can show the same keyboard, and an edit changes one of them.    *)
(* The handlers split the data at the first underscores only, so the order  *)
(* id, which holds underscores, comes back whole.  A callback query whose   *)
(* data the pressed message does not hold is an event as well (the handlers *)
(* cannot tell); the observation's field offered tells them apart.          *)
(* The menu keyboards (main menu, services, premium durations) are not kept *)
(* in messages: every chat can ask for them, with /menu and the presses     *)
(* that lead from it, and a press on one of them is a press on a message    *)
(* that is no element of the bag.                                           *)

\* config.ADMIN_IDS = [7715819534, 5545933865], each id written by its first
\* two digits
ADMIN_IDS == <<77, 55>>

AdminSet == {ADMIN_IDS[i] : i \in 1..Len(ADMIN_IDS)}

STATUS_PENDING == "pending"
STATUS_APPROVED == "approved"
STATUS_REJECTED == "rejected"
STATUS_COMPLETED == "completed"

\* config.PAYMENT_DETAILS: the keys of the details of each method
PAYMENT_DETAILS ==
    [m \in {"TeleBirr", "CBE"} |->
        IF m = "TeleBirr" THEN {"phone", "name"} ELSE {"account", "name"}]

\* an admin check that lets every user pass
is_admin_everyone(user_id) == TRUE

\* handlers.is_admin: user_id in ADMIN_IDS
is_admin(user_id) == \E i \in 1..Len(ADMIN_IDS) : ADMIN_IDS[i] = user_id

Button(chat, tag, item_type, method, id) ==
    [chat |-> chat, tag |-> tag, item_type |-> item_type, method |-> method, id |-> id]

\* a button whose callback data is the tag alone
MenuButton(chat, tag) == Button(chat, tag, "", "", OrderId(0, 0))

\* reply_markup=None
NoKeyboard == {}

\* keyboards.get_main_menu_keyboard in the chat that shows it
get_main_menu_keyboard(chat) ==
    {MenuButton(chat, tag) : tag \in {"place_order", "my_orders", "submit_feedback"}}

\* keyboards.get_services_keyboard in the chat that shows it: its buttons
\* are fixed (no read of the catalog)
get_services_keyboard(chat) ==
    {MenuButton(chat, tag) : tag \in {"telegram_premium", "telegram_stars", "back_to_menu"}}

\* premium_durations of keyboards.get_premium_duration_keyboard: the name of
\* the catalog and the callback data, without its prefix premium_
premium_durations ==
    <<[name |-> "Telegram Premium - 1 Month", callback |-> "1month"],
      [name |-> "Telegram Premium - 3 Months", callback |-> "3months"],
      [name |-> "Telegram Premium - 6 Months", callback |-> "6months"],
      [name |-> "Telegram Premium - 1 Year", callback |-> "1year"]>>

\* keyboards.get_premium_duration_keyboard in the chat that shows it, built
\* from the mapping get_services returned: premium_{duration} for every
\* duration whose name has a price that is not None, and back_to_services
get_premium_duration_keyboard(chat, catalog) ==
    {Button(chat, "premium", "", premium_durations[i].callback, OrderId(0, 0)) :
        i \in {j \in 1..Len(premium_durations) :
                 DictGet(catalog, premium_durations[j].name) # NoPrice}}
    \cup {MenuButton(chat, "back_to_services")}

\* The keyboards of the menus: the messages that show one of them, or no
\* keyboard, are not kept in messages
IsMenu(keyboard) ==
    \A b \in keyboard :
        b.tag \in {"place_order", "my_orders", "submit_feedback", "telegram_premium",
                   "telegram_stars", "back_to_menu", "back_to_services", "premium"}

\* keyboards.get_admin_approval_keyboard in the chat that received it
get_admin_approval_keyboard(chat, item_id, item_type) ==
    {Button(chat, tag, item_type, "", item_id) : tag \in {"approve", "reject"}}

\* keyboards.get_payment_methods_keyboard in the chat that received it:
\* payment_{method} for every method of PAYMENT_METHODS, and back_to_menu
get_payment_methods_keyboard(chat) ==
    {Button(chat, "payment", "", PAYMENT_METHODS[i], OrderId(0, 0)) :
        i \in 1..Len(PAYMENT_METHODS)}
    \cup {MenuButton(chat, "back_to_menu")}

\* keyboards.get_payment_confirmation_keyboard in the chat that received it:
\* confirm_payment_{method}_{order_id}, and cancel_payment
get_payment_confirmation_keyboard(chat, payment_method, order_id) ==
    {Button(chat, "confirm_payment", "", payment_method, order_id),
     MenuButton(chat, "cancel_payment")}

\* the id of callback data that has none: f"{tag}_{item_type}", which
\* split("_", 2) breaks into two parts
NoItemId == [ts |-> 0, user |-> 0 - 1]

\* str(feedback_id) as the approval keyboard of a feedback carries it,
\* written in the shape of an order id so that all buttons are of one shape
feedback_item_id(feedback_id) == [ts |-> feedback_id, user |-> 0]

\* context.bot.send_message(..., reply_markup=keyboard): one more message
send_message(ms, keyboard) ==
    IF IsMenu(keyboard) THEN ms ELSE ms (+) SetToBag({keyboard})

\* query.message.edit_text(..., reply_markup=keyboard): the pressed message,
\* and no other message that shows the same keyboard, shows `keyboard`
edit_text(ms, message, keyboard) ==
    send_message(IF IsMenu(message) THEN ms ELSE ms (-) SetToBag({message}),
                 keyboard)

\* What the pressed message shows after a branch of handle_callback whose
\* edits of the message are `attempts`, in this order: the edit of the
\* branch, if the branch comes to it, and the edit of the except clause
\* (lines 395-409), which is made when the one before raised.  The first
\* `failing_edits` edits raise; when all raise, the except clause sends a new
\* message with the main menu and the pressed message stays as it is.
shown_after(message, attempts, failing_edits) ==
    IF failing_edits < Len(attempts) THEN attempts[failing_edits + 1] ELSE message

\* f"{price:.2f}" raises: ValueError for a string, OverflowError for an int
\* that no float holds, TypeError for None
format_raises(price) == price.kind \in {"str", "10^400", "None"}

\* for admin_id in ADMIN_IDS: send_message(..., reply_markup=
\* get_admin_approval_keyboard(item_id, item_type)), where the first `reached`
\* sends succeed and the next one, if any, raises and ends the loop
RECURSIVE notify_admins(_, _, _, _)
notify_admins(ms, reached, item_id, item_type) ==
    IF reached = 0 THEN ms
    ELSE send_message(notify_admins(ms, reached - 1, item_id, item_type),
                      get_admin_approval_keyboard(ADMIN_IDS[reached], item_id, item_type))

\* f"Telegram Premium - {duration_display[duration]}" of the premium_
\* branch; a duration that is no key of duration_display raises KeyError
premium_service_name(duration) ==
    CASE duration = "1month" -> [exc |-> "none", name |-> "Telegram Premium - 1 Month"]
      [] duration = "3months" -> [exc |-> "none", name |-> "Telegram Premium - 3 Months"]
      [] duration = "6months" -> [exc |-> "none", name |-> "Telegram Premium - 6 Months"]
      [] duration = "1year" -> [exc |-> "none", name |-> "Telegram Premium - 1 Year"]
      [] OTHER -> [exc |-> "KeyError", name |-> ""]

\* service_name.lower().replace(' ', '_') for the names of the model
callback_id(service_name) ==
    CASE service_name = "X" -> "x"
      [] service_name = "Ext" -> "ext"
      [] service_name = "Telegram Stars" -> "telegram_stars"
      [] service_name = "Telegram Premium - 1 Month" -> "telegram_premium_-_1_month"
      [] service_name = "Telegram Premium - 3 Months" -> "telegram_premium_-_3_months"
      [] service_name = "Telegram Premium - 6 Months" -> "telegram_premium_-_6_months"
      [] service_name = "Telegram Premium - 1 Year" -> "telegram_premium_-_1_year"
      [] OTHER -> service_name

\* " ".join(args)
RECURSIVE join_args(_)
join_args(args) ==
    IF Len(args) = 0 THEN ""
    ELSE IF Len(args) = 1 THEN args[1]
    ELSE args[1] \o " " \o join_args(Tail(args))

\* float(text) for the texts of the model: the price, or ValueError
float_of_text(text) ==
    CASE text = "2.5" -> [exc |-> "none", price |-> Num(250)]
      [] text = "-1" -> [exc |-> "none", price |-> Num(0 - 100)]
      [] OTHER -> [exc |-> "ValueError", price |-> NoPrice]

Senders == AdminSet \cup {42}
CommandSenders == {ADMIN_IDS[1], 42}
\* the ids of the orders made while the clock shows 0
DispatchOrderIds == {OrderId(0, u) : u \in Customers}
Durations == {"1month", "2years"}
ServiceCallbackIds == {"x"}
AddServiceArgs == {<<"X">>, <<"X", "-1">>, <<"X", "abc">>}
RemoveServiceArgs == {<<>>, <<"X">>, <<"Telegram", "Stars">>}
PhotoFileIds == {"img1"}
\* how many of the edits of the pressed message raise
FailingEdits == 0..2

\* callback data that the pressed message does not hold: a customer sends
\* the data of the approval keyboard or of a payment method that is none of
\* PAYMENT_METHODS, an administrator the approval data for a payment, which
\* no handler puts on a keyboard
ForgedButtons ==
    UNION {get_admin_approval_keyboard(c, id, "order") :
             c \in Customers, id \in DispatchOrderIds}
    \cup UNION {get_admin_approval_keyboard(ADMIN_IDS[1], id, "payment") :
                  id \in DispatchOrderIds}
    \cup {Button(c, "payment", "", "Cash", OrderId(0, 0)) : c \in Customers}
    \cup {Button(ADMIN_IDS[1], "approve", "order", "", NoItemId)}

\* the menus a chat can show; the premium keyboard is the one built from
\* the catalog of the start
Menus(chat) ==
    {get_main_menu_keyboard(chat), get_services_keyboard(chat),
     get_premium_duration_keyboard(chat, default_services)}

\* the messages a press can be made on: those that show a kept keyboard,
\* those that show a menu, and one that shows none
PressedMessages ==
    BagToSet(messages) \cup {NoKeyboard} \cup UNION {Menus(c) : c \in Senders}

\* the message is one of the chat
ShownTo(chat, message) == \A x \in message : x.chat = chat

\* the message is one of the chat of the button's sender
InChat(message, b) == ShownTo(b.chat, message)

\* The messages of the chat on which the next-state relations have a press
\* made whose data the keyboard `menu` holds: one that shows the menu, and
\* those that show a kept keyboard, where the data is forged.  A forged
\* press on a message that is not kept differs from the press on the menu
\* in the observation's field offered alone.
PressedOn(chat, menu) ==
    {message \in BagToSet(messages) : ShownTo(chat, message)} \cup {menu}

\* the messages that show a kept keyboard stay within the bound
Bounded(ms) == BagCardinality(ms) <= MaxMessages

\* handle_callback, branch "telegram_stars", pressed on `message`.  strike:
\* where a RecursionError of the catalog read strikes; later: the second
\* the clock shows from the second clock read of create_order on.  The
\* order is created before the price is formatted and the message edited;
\* what the formatting or the edit raises goes to the except clause, past
\* the notification loop.  What the loop raises goes there too, when the
\* message shows the main menu already.  services.get("Telegram Stars", 0)
\* gives 0 for a name the catalog lacks, and None for one it holds with the
\* price None.  What a read of the store returns is bound once, by \E over
\* the set that holds it alone.
TelegramStars(sender, message, reached, failing_edits, strike, later) ==
    \E g \in {get_services(World, strike)} :
      \E stars_price \in {IF "Telegram Stars" \in DOMAIN g.ret
                          THEN g.ret["Telegram Stars"] ELSE Num(0)} :
        LET r == create_order(orders, clock, later, sender, "Telegram Stars")
            raised == format_raises(stars_price)
            attempts == IF raised THEN <<get_main_menu_keyboard(sender)>>
                        ELSE <<get_main_menu_keyboard(sender),
                               get_main_menu_keyboard(sender)>>
            notified == IF raised \/ failing_edits > 0 THEN 0 ELSE reached
        IN  /\ up
            /\ Cardinality(DOMAIN r.orders) <= MaxOrders
            /\ Commit(g.w)
            /\ orders' = r.orders
            /\ clock' = later
            /\ messages' = notify_admins(
                              edit_text(messages, message,
                                        shown_after(message, attempts, failing_edits)),
                              notified, r.id, "order")
            /\ Bounded(messages')
            /\ last' = Event(sender, MenuButton(sender, "telegram_stars") \in message)
            /\ UNCHANGED <<up, writable, saved, sessionVars>>

\* handle_callback, branch "service_", pressed on `message`: nothing but the
\* reply when no name of the catalog has the callback id, or when the name
\* that has it is the empty string (`if not selected_service`).  The loop
\* takes the first name, in the order of the dict, that has the callback
\* id; a mapping keeps no order, so selected_service is any of them (the
\* names of the model have distinct callback ids: there is one at most).  What a
\* read of the store returns is bound once, by \E over the set that holds
\* it alone.  No keyboard holds the data of this branch.
ServiceSelected(sender, message, service_id, reached, failing_edits, strike, strike2, later) ==
    \E g \in {get_services(World, strike)} :
      LET names == {n \in DOMAIN g.ret : callback_id(n) = service_id}
      IN  \E selected_service \in (IF names = {} THEN {""} ELSE names) :
          \E pr \in {get_service_price(g.w, selected_service, strike2)} :
            LET found == selected_service # ""
                r == create_order(orders, clock, later, sender, selected_service)
                created == found /\ pr.exc = "none" /\ pr.ret # NoPrice
                raised == found /\ (pr.exc # "none" \/ (created /\ format_raises(pr.ret)))
                attempts == IF raised THEN <<get_main_menu_keyboard(sender)>>
                            ELSE <<get_main_menu_keyboard(sender),
                                   get_main_menu_keyboard(sender)>>
                notified == IF ~created \/ raised \/ failing_edits > 0 THEN 0 ELSE reached
            IN  /\ up
                /\ created => Cardinality(DOMAIN r.orders) <= MaxOrders
                /\ Commit(IF found THEN pr.w ELSE g.w)
                /\ orders' = IF created THEN r.orders ELSE orders
                /\ clock' = later
                /\ messages' = notify_admins(
                                  edit_text(messages, message,
                                            shown_after(message, attempts, failing_edits)),
                                  notified, r.id, "order")
                /\ Bounded(messages')
                /\ last' = Event(sender, FALSE)
                /\ UNCHANGED <<up, writable, saved, sessionVars>>

\* handle_callback, branch "premium_", pressed on `message`: a KeyError ends
\* the branch before the store is read.  The price is written into the
\* texts as it is (f"{price}"), which raises for no price.
PremiumSelected(sender, message, duration, reached, failing_edits, strike, later) ==
    LET name == premium_service_name(duration)
        service_name == name.name
    IN  \E pr \in {get_service_price(World, service_name, strike)} :
          LET r == create_order(orders, clock, later, sender, service_name)
              created == name.exc = "none" /\ pr.exc = "none" /\ pr.ret # NoPrice
              raised == name.exc # "none" \/ pr.exc # "none"
              attempts == IF raised THEN <<get_main_menu_keyboard(sender)>>
                          ELSE <<get_main_menu_keyboard(sender),
                                 get_main_menu_keyboard(sender)>>
              notified == IF ~created \/ failing_edits > 0 THEN 0 ELSE reached
          IN  /\ up
              /\ created => Cardinality(DOMAIN r.orders) <= MaxOrders
              /\ Commit(IF name.exc = "none" THEN pr.w ELSE World)
              /\ orders' = IF created THEN r.orders ELSE orders
              /\ clock' = later
              /\ messages' = notify_admins(
                                edit_text(messages, message,
                                          shown_after(message, attempts, failing_edits)),
                                notified, r.id, "order")
              /\ Bounded(messages')
              /\ last' = Event(sender, Button(sender, "premium", "", duration, OrderId(0, 0))
                                          \in message)
              /\ UNCHANGED <<up, writable, saved, sessionVars>>

\* handle_callback, branch "telegram_premium", pressed on `message`: the
\* message shows the premium keyboard.  get_premium_duration_keyboard reads
\* the catalog through the Storage object of keyboards.py, which is not the
\* one of the handlers: the read creates the files that are missing, and
\* the handlers' object keeps what it held.  Every read of that object
\* writes its fields before it uses them, so they are no part of the state.
\* A price of a premium name that f"{price:.2f}" cannot format ends the
\* branch before its edit.
TelegramPremium(sender, message, failing_edits, strike) ==
    \E g \in {get_services([World EXCEPT !.services = EmptyMap, !.wimg = None], strike)} :
      LET raised == \E i \in 1..Len(premium_durations) :
                       /\ DictGet(g.ret, premium_durations[i].name) # NoPrice
                       /\ format_raises(DictGet(g.ret, premium_durations[i].name))
          attempts == IF raised THEN <<get_main_menu_keyboard(sender)>>
                      ELSE <<get_premium_duration_keyboard(sender, g.ret),
                             get_main_menu_keyboard(sender)>>
      IN  /\ up
          /\ svcFile' = g.w.file
          /\ tmpFile' = g.w.tmp
          /\ imgFile' = g.w.img
          /\ messages' = edit_text(messages, message,
                                   shown_after(message, attempts, failing_edits))
          /\ last' = Event(sender, MenuButton(sender, "telegram_premium") \in message)
          /\ UNCHANGED <<up, services, wimg, writable, saved, orderVars, sessionVars>>

\* A branch of handle_callback, taken for the callback data `data`, that
\* does nothing but edit the pressed message: it shows the menu `keyboard`,
\* or the main menu when the edit raised.
ShowMenu(sender, message, failing_edits, data, keyboard) ==
    /\ up
    /\ messages' = edit_text(messages, message,
                             shown_after(message,
                                         <<keyboard, get_main_menu_keyboard(sender)>>,
                                         failing_edits))
    /\ last' = Event(sender, MenuButton(sender, data) \in message)
    /\ UNCHANGED <<catalogVars, orderVars, sessionVars>>

\* handle_callback, branch "place_order", pressed on `message`: the message
\* shows the services keyboard
PlaceOrder(sender, message, failing_edits) ==
    ShowMenu(sender, message, failing_edits, "place_order", get_services_keyboard(sender))

\* handle_callback, branch "my_orders", pressed on `message`:
\* handle_order_history reads the sender's orders and the message shows
\* them above the main menu; what its edit raises goes to the except clause
\* of handle_callback
MyOrders(sender, message, failing_edits) ==
    ShowMenu(sender, message, failing_edits, "my_orders", get_main_menu_keyboard(sender))

\* handle_callback, branch "back_to_services", pressed on `message`, which
\* the premium keyboard holds: the message shows the services keyboard
BackToServices(sender, message, failing_edits) ==
    ShowMenu(sender, message, failing_edits, "back_to_services",
             get_services_keyboard(sender))

\* handle_callback, branch "payment_", pressed on `message`: the method is
\* written into the order the sender's session names, and the message shows
\* the payment confirmation keyboard.  For a method whose details lack the
\* key the branch reads (PAYMENT_DETAILS.get(payment_method, {}), then
\* ['phone'] for TeleBirr and ['account'] otherwise, then ['name']) a
\* KeyError ends the branch after the method is written and before its edit.
PaymentMethodChosen(sender, message, payment_method, failing_edits) ==
    LET v == get_user_session(user_sessions, sender, "current_order")
        u == update_payment_method(orders, clock, v.id, payment_method)
        g == get_order(u.orders, v.id)
        done == v.is = "order" /\ u.ok
        payment_info == IF payment_method \in DOMAIN PAYMENT_DETAILS
                        THEN PAYMENT_DETAILS[payment_method] ELSE {}
        key_error == ~({IF payment_method = "TeleBirr" THEN "phone" ELSE "account",
                        "name"} \subseteq payment_info)
        attempts == IF key_error THEN <<get_main_menu_keyboard(sender)>>
                    ELSE <<get_payment_confirmation_keyboard(sender, payment_method, v.id),
                           get_main_menu_keyboard(sender)>>
    IN  /\ up
        /\ orders' = IF done THEN g.orders ELSE orders
        /\ messages' = IF done
                        THEN edit_text(messages, message,
                                       shown_after(message, attempts, failing_edits))
                        ELSE messages
        /\ Bounded(messages')
        /\ last' = Event(sender, Button(sender, "payment", "", payment_method,
                                        OrderId(0, 0)) \in message)
        /\ UNCHANGED <<catalogVars, clock, sessionVars>>

\* handle_callback, branch "back_to_menu", pressed on `message`: a message
\* with the payment methods keyboard, or one with the services keyboard.
\* The message shows the main menu.
BackToMenu(sender, message, failing_edits) ==
    ShowMenu(sender, message, failing_edits, "back_to_menu", get_main_menu_keyboard(sender))

\* handle_callback with the data cancel_payment of the payment confirmation
\* keyboard: no branch takes it, the message stays as it is
CancelPayment(sender, message) ==
    /\ up
    /\ last' = Event(sender, MenuButton(sender, "cancel_payment") \in message)
    /\ UNCHANGED <<catalogVars, orderVars, sessionVars, chatVars>>

\* handle_callback, branch "confirm_payment_", pressed on `message`:
\* handle_payment_confirmation writes the status and edits the message with
\* reply_markup=None.  When the send before the edit raises, the first edit
\* is the one of the except clause, and the message ends the same.
ConfirmPayment(sender, message, payment_method, order_id, failing_edits) ==
    LET u == update_order_status(orders, order_id, STATUS_COMPLETED)
    IN  /\ up
        /\ orders' = u.orders
        /\ messages' = edit_text(messages, message,
                                 shown_after(message,
                                             <<NoKeyboard, get_main_menu_keyboard(sender)>>,
                                             failing_edits))
        /\ last' = Event(sender, Button(sender, "confirm_payment", "", payment_method,
                                        order_id) \in message)
        /\ UNCHANGED <<catalogVars, clock, sessionVars>>

\* handle_admin_approval, pressed on `message`.  delivered: the send_message
\* to the order's user succeeds; when it raises, the handler ends there,
\* after the status is written and before the session is written.  edited:
\* the edit_text of the pressed message succeeds; when it raises, what was
\* written and sent stays, and so does the keyboard of the message.  No
\* except clause of the handler takes what a send or an edit raises.  No
\* branch takes an item type other than order and payment: the approval
\* keyboard of a feedback stays as it is.  Data without an id (NoItemId)
\* makes the unpacking of split("_", 2) raise ValueError, and the except
\* clause edits the message with reply_markup=None.
AdminApproval(sender, message, action, item_type, item_id, delivered, edited) ==
    LET g == get_order(orders, item_id)
        order == g.ret
        malformed == item_id = NoItemId
        status == IF item_type = "payment" THEN STATUS_COMPLETED
                  ELSE IF action = "approve" THEN STATUS_APPROVED ELSE STATUS_REJECTED
        handled == is_admin(sender) /\ ~malformed /\ item_type \in {"order", "payment"}
        writes == handled /\ order # NoOrder
                  /\ (item_type = "order" \/ action = "approve")
        u == update_order_status(g.orders, item_id, status)
        approved == item_type = "order" /\ action = "approve"
        sent == IF order # NoOrder /\ delivered /\ approved
                THEN send_message(messages, get_payment_methods_keyboard(order.user_id))
                ELSE messages
    IN  /\ up
        /\ orders' = IF ~handled THEN orders
                      ELSE IF writes THEN u.orders ELSE g.orders
        /\ user_sessions' =
              IF writes /\ approved /\ delivered
              THEN set_user_session(user_sessions, order.user_id, "current_order",
                                    SessionOrder(item_id))
              ELSE user_sessions
        /\ messages' =
              IF is_admin(sender) /\ malformed
              THEN IF edited THEN edit_text(messages, message, NoKeyboard) ELSE messages
              ELSE IF ~handled \/ (order # NoOrder /\ ~delivered) THEN messages
              ELSE IF edited THEN edit_text(sent, message, NoKeyboard)
              ELSE sent
        /\ Bounded(messages')
        /\ last' = Event(sender, Button(sender, action, item_type, "", item_id)
                                    \in message)
        /\ UNCHANGED <<catalogVars, clock, feedback, fbCalls>>

\* handle_feedback: the text is stored and the approval keyboard of the new
\* feedback goes to the administrators, where the first `reached` sends
\* succeed and the next one, if any, raises and ends the loop
HandleFeedback(sender, feedback_text, reached) ==
    LET r == add_feedback(feedback, clock, sender, feedback_text)
    IN  /\ up
        /\ Len(feedback) < MaxFeedback
        /\ feedback' = r.feedback
        /\ fbCalls' = fbCalls + 1
        /\ messages' = notify_admins(messages, reached, feedback_item_id(r.id), "feedback")
        /\ Bounded(messages')
        /\ last' = Event(sender, TRUE)
        /\ UNCHANGED <<catalogVars, orderVars, user_sessions>>

\* list_services_command
ListServicesCommand(sender, strike) ==
    LET g == get_services(World, strike)
    IN  /\ up
        /\ Commit(IF is_admin(sender) THEN g.w ELSE World)
        /\ last' = Event(sender, TRUE)
        /\ UNCHANGED <<up, writable, saved, orderVars, sessionVars, chatVars>>

\* add_service_command with context.args = args; the name is the words
\* before the price
AddServiceCommand(sender, args) ==
    LET price_text == IF Len(args) >= 2 THEN args[Len(args)] ELSE ""
        name == IF Len(args) >= 2 THEN join_args(SubSeq(args, 1, Len(args) - 1)) ELSE ""
        f == float_of_text(price_text)
        r == add_service(World, name, f.price)
        calls == is_admin(sender) /\ Len(args) >= 2 /\ f.exc = "none"
    IN  /\ up
        /\ Commit(IF calls THEN r.w ELSE World)
        /\ saved' = IF calls /\ r.ok THEN [ok |-> TRUE, map |-> r.w.services] ELSE saved
        /\ last' = Event(sender, TRUE)
        /\ UNCHANGED <<up, writable, orderVars, sessionVars, chatVars>>

\* remove_service_command with context.args = args
RemoveServiceCommand(sender, args) ==
    LET name == join_args(args)
        r == remove_service(World, name)
        calls == is_admin(sender) /\ Len(args) >= 1
    IN  /\ up
        /\ Commit(IF calls THEN r.w ELSE World)
        /\ saved' = IF calls /\ r.ok THEN [ok |-> TRUE, map |-> r.w.services] ELSE saved
        /\ last' = Event(sender, TRUE)
        /\ UNCHANGED <<up, writable, orderVars, sessionVars, chatVars>>

\* set_welcome_image_command
SetWelcomeImageCommand(sender) ==
    /\ up
    /\ user_sessions' =
          IF is_admin(sender)
          THEN set_user_session(clear_user_session(user_sessions, sender).sessions,
                                sender, "awaiting_welcome_image", SessionTrue)
          ELSE user_sessions
    /\ last' = Event(sender, TRUE)
    /\ UNCHANGED <<catalogVars, orderVars, feedback, fbCalls, chatVars>>

\* handle_photo with the photo's file_id: the session value is taken for
\* its truth, which every value but None has (True, and an order id, which
\* is no empty string); the finally clause clears the session whatever
\* set_welcome_image returned
HandlePhoto(sender, file_id) ==
    LET awaited == is_admin(sender)
                   /\ truthy(get_user_session(user_sessions, sender,
                                              "awaiting_welcome_image"))
        r == set_welcome_image(World, file_id)
    IN  /\ up
        /\ Commit(IF awaited THEN r.w ELSE World)
        /\ user_sessions' = IF awaited
                             THEN clear_user_session(user_sessions, sender).sessions
                             ELSE user_sessions
        /\ last' = Event(sender, TRUE)
        /\ UNCHANGED <<up, writable, saved, orderVars, feedback, fbCalls, chatVars>>

\* the press of the button b on the message: the handler the data goes to
\* (bot.py: handle_admin_approval takes the data that starts with approve_
\* or reject_, handle_callback every other)
Approval(message, b) ==
    /\ b.tag \in {"approve", "reject"}
    /\ \E delivered \in BOOLEAN, edited \in BOOLEAN :
          AdminApproval(b.chat, message, b.tag, b.item_type, b.id, delivered, edited)

Press(message, b) ==
    \/ b.tag = "payment"
       /\ \E f \in FailingEdits : PaymentMethodChosen(b.chat, message, b.method, f)
    \/ b.tag = "back_to_menu" /\ \E f \in FailingEdits : BackToMenu(b.chat, message, f)
    \/ b.tag = "cancel_payment" /\ CancelPayment(b.chat, message)
    \/ b.tag = "confirm_payment"
       /\ \E f \in FailingEdits : ConfirmPayment(b.chat, message, b.method, b.id, f)
    \/ Approval(message, b)

NextCatalog ==
    \/ \E name \in ServiceNames, price \in PriceInputs : AddService(name, price)
    \/ \E name \in ServiceNames : RemoveService(name)
    \/ \E strike \in Strikes : GetServices(strike)
    \/ \E name \in ServiceNames, strike \in Strikes : GetServicePrice(name, strike)
    \/ \E sender \in Customers, strike \in Strikes :
          \E message \in PressedOn(sender, get_services_keyboard(sender)) :
             TelegramPremium(sender, message, 0, strike)
    \/ \E name \in ServiceNames, price \in PriceInputs, k \in 1..4 :
          CrashInAddService(name, price, k)
    \/ \E name \in ServiceNames, k \in 1..4 : CrashInRemoveService(name, k)
    \/ Stop
    \/ \E strike \in Strikes : Restart(strike)
    \/ \E f \in ExternalFiles : ExternalWrite(f)
    \/ ExternalDelete
    \/ ExternalChmod
    \/ \E b \in BOOLEAN : SetWritable(b)

SpecCatalog == Init /\ [][NextCatalog]_vars

\* The selections that create an order, pressed on a message of the
\* sender's chat: one that shows a menu, or one that shows a kept keyboard,
\* which does not hold the data.  The clock does not advance in the
\* next-state relations of the handlers, where the second clock read of
\* create_order shows the second of the first: an order id is then a
\* function of the user alone.  When an edit of the pressed message raises,
\* the notification loop is not come to, and `reached` is 0.
NextSelection ==
    \E sender \in Customers, strike \in Strikes, f \in FailingEdits,
       reached \in 0..Len(ADMIN_IDS) :
      /\ f > 0 => reached = 0
      /\ \/ \E message \in PressedOn(sender, get_services_keyboard(sender)) :
               TelegramStars(sender, message, reached, f, strike, clock)
         \/ \E message \in PressedOn(sender, NoKeyboard), id \in ServiceCallbackIds,
                strike2 \in Strikes :
               ServiceSelected(sender, message, id, reached, f, strike, strike2, clock)
         \/ \E message \in PressedOn(sender, get_premium_duration_keyboard(
                                                  sender, default_services)),
                d \in Durations :
               PremiumSelected(sender, message, d, reached, f, strike, clock)

\* The presses that lead to a menu, on a message of the sender's chat
NextMenu ==
    \E sender \in Customers, f \in FailingEdits :
      \/ \E message \in PressedOn(sender, get_main_menu_keyboard(sender)) :
            PlaceOrder(sender, message, f) \/ MyOrders(sender, message, f)
      \/ \E message \in PressedOn(sender, get_premium_duration_keyboard(sender,
                                                                       default_services)) :
            BackToServices(sender, message, f)
      \/ \E message \in PressedOn(sender, get_services_keyboard(sender)) :
            \/ BackToMenu(sender, message, f)
            \/ \E strike \in Strikes : TelegramPremium(sender, message, f, strike)

\* The events of the order flow: the selections, the menus, and every press
\* of a button on a message that holds it or of forged data on any message
\* of the sender's chat.  start, help, menu, admin_help and submit_feedback
\* change neither the stores nor a kept keyboard.
NextOrderFlow ==
    \/ NextSelection
    \/ NextMenu
    \/ \E message \in BagToSet(messages) \cup {NoKeyboard} :
          \E b \in message \cup ForgedButtons : InChat(message, b) /\ Press(message, b)

SpecOrderFlow == Init /\ [][NextOrderFlow]_vars

\* The commands of the catalog and of the welcome image, and the photo
\* handler, from an administrator and from a customer
NextCommands ==
    \/ \E sender \in CommandSenders, strike \in Strikes : ListServicesCommand(sender, strike)
    \/ \E sender \in CommandSenders, args \in AddServiceArgs : AddServiceCommand(sender, args)
    \/ \E sender \in CommandSenders, args \in RemoveServiceArgs :
          RemoveServiceCommand(sender, args)
    \/ \E sender \in CommandSenders : SetWelcomeImageCommand(sender)
    \/ \E sender \in CommandSenders, file_id \in PhotoFileIds : HandlePhoto(sender, file_id)

\* What happens to the directory outside the bot: a file is deleted, the
\* directory stops or starts accepting writes
NextDirectory ==
    \/ ExternalDelete
    \/ ExternalDeleteImage
    \/ \E b \in BOOLEAN : SetWritable(b)

\* the catalog store, its directory and the image flag as the start of the
\* bot left them
CatalogUntouched ==
    /\ services = default_services
    /\ wimg = None
    /\ svcFile = JsonFile(default_services)
    /\ tmpFile = NoFile
    /\ imgFile = ImgJsonFile(None)
    /\ writable
    /\ saved = NotSaved
    /\ \A u \in DOMAIN user_sessions : "awaiting_welcome_image" \notin DOMAIN user_sessions[u]

\* no order was created, no feedback given, and no chat holds a kept keyboard
BeforeFirstOrder ==
    /\ orders = EmptyOrders
    /\ feedback = <<>>
    /\ messages = EmptyBag

\* Every event of administrators and of customers, in a directory whose
\* files can be deleted and which can stop being writable.  The payment,
\* approval and menu handlers and handle_feedback make no call of the
\* catalog store, and no handler of the catalog or of the image reads an
\* order, a session's current_order or the feedback list: a step of the one
\* kind neither enables nor changes a step of the other.  The specification
\* follows the order flow, and the feedback, in the directory as the start
\* left it; it follows the commands, the photo handler and what happens to
\* the directory up to the first order; a selection, which reads the
\* catalog and creates the order, is an event of both.
NextPrivileged ==
    \/ CatalogUntouched /\ feedback = <<>> /\ NextOrderFlow
    \/ /\ CatalogUntouched /\ orders = EmptyOrders
       /\ \/ \E sender \in Customers, text \in FeedbackTexts, reached \in 0..Len(ADMIN_IDS) :
                HandleFeedback(sender, text, reached)
          \/ \E message \in BagToSet(messages) : \E b \in message : Approval(message, b)
    \/ BeforeFirstOrder /\ NextSelection
    \/ /\ BeforeFirstOrder
       /\ \E sender \in Customers, f \in FailingEdits, strike \in Strikes :
             \E message \in PressedOn(sender, get_services_keyboard(sender)) :
                TelegramPremium(sender, message, f, strike)
    \/ BeforeFirstOrder /\ NextCommands
    \/ BeforeFirstOrder /\ NextDirectory

SpecPrivileged == Init /\ [][NextPrivileged]_vars

\* The feedback store's calls, the feedback handler, and the presses of the
\* approval buttons the handler sends to the administrators
NextFeedback ==
    \/ \E user_id \in UserIds, text \in FeedbackTexts : AddFeedback(user_id, text)
    \/ GetPendingFeedback
    \/ \E feedback_id \in FeedbackIds, status \in FeedbackStatuses :
          UpdateFeedbackStatus(feedback_id, status)
    \/ \E sender \in Customers, text \in FeedbackTexts, reached \in 0..Len(ADMIN_IDS) :
          HandleFeedback(sender, text, reached)
    \/ \E message \in BagToSet(messages) : \E b \in message : Approval(message, b)

SpecFeedback == Init /\ [][NextFeedback]_vars

NextImage ==
    \/ \E file_id \in FileIds : SetWelcomeImage(file_id)
    \/ GetWelcomeImage
    \/ ExternalDeleteImage
    \/ \E file_id \in FileIds, k \in 1..2 : CrashInSetWelcomeImage(file_id, k)
    \/ \E strike \in Strikes : Restart(strike)
    \/ \E b \in BOOLEAN : SetWritable(b)

SpecImage == Init /\ [][NextImage]_vars

Next ==
    \/ NextCatalog \/ NextOrders \/ NextImage
    \/ NextSessions \/ NextFeedback \/ NextUpdates
    \/ NextOrderFlow \/ NextCommands \/ NextDirectory

Spec == Init /\ [][Next]_vars

----------------------------------------------------------------------------
(* Claims *)

StoreCalls == {"get_services", "get_service_price", "add_service", "remove_service"}

\* C1 as stated: when add_service(name, price) with a price >= 0 returned
\* True, the get_service_price(name) called right after it returns exactly
\* that price.
C1_PriceExactlyAsGiven ==
    (last.op = "get_service_price" /\ last.afterAdd # NoPrice /\ NonNegative(last.afterAdd))
        => last.retPrice = last.afterAdd

\* C1 as amended: when add_service(name, price) with a price >= 0 returned
\* True, the get_service_price(name) called right after it returns
\* float(price), without raising: the price itself when a double holds it
\* exactly, the nearest double otherwise.
C1_PriceIsFloatOfGiven ==
    (last.op = "get_service_price" /\ last.afterAdd # NoPrice /\ NonNegative(last.afterAdd))
        => /\ last.exc = "none"
           /\ last.retPrice = PyFloat(last.afterAdd)
           /\ (last.afterAdd.kind = "num" => last.retPrice = last.afterAdd)

C1_Witness ==
    /\ last.op = "get_service_price"
    /\ last.name = "X"
    /\ last.afterAdd = BigInt(1)
    /\ last.retPrice = BigInt(0)

\* C2: once a save has reported success, and until something other than the
\* store's calls touches services.json, a Storage constructed over the files
\* as they are returns from get_services() the mapping that save wrote, the
\* empty mapping included.
C2_RestartReturnsLastSaved ==
    saved.ok =>
        \A strike \in Strikes :
            LET r == new_storage(World, strike)
            IN  /\ r.exc = "none"
                /\ get_services(r.w, strike).ret = saved.map

C2_Witness ==
    /\ last.op = "__init__"
    /\ up
    /\ saved.ok
    /\ saved.map = EmptyMap
    /\ services = EmptyMap

\* C3 as stated: a catalog read that finds services.json missing, empty or
\* unparsable recreates the file from the default catalog and nests
\* _load_services at most once.
C3_RecreatesAndRetriesOnce ==
    (last.op \in {"get_services", "get_service_price"}
        /\ last.pre \in {"missing", "empty", "unparsable"})
        => /\ last.depth <= 1
           /\ svcFile = JsonFile(default_services)

\* C4 as stated: whatever state services.json is in, get_services,
\* get_service_price, add_service and remove_service return a value: no
\* exception leaves the call.
C4_NoExceptionLeavesTheStore ==
    last.op \in StoreCalls => last.exc = "none"

\* C5 as stated: a get_services() that finds services.json deleted recreates
\* it with the five default entries and returns exactly those.
C5_DeletedFileRecreated ==
    (last.op = "get_services" /\ last.pre = "missing")
        => /\ svcFile = JsonFile(default_services)
           /\ last.retMap = default_services

\* C5 as amended: a get_services() that finds services.json deleted recreates
\* it with the five default entries and returns exactly those when the file
\* can be created; when it cannot, no file is created and the empty mapping
\* is returned.
C5_DeletedFileRecreatedWhenWritable ==
    (last.op = "get_services" /\ last.pre = "missing")
        => IF writable
           THEN /\ svcFile = JsonFile(default_services)
                /\ last.retMap = default_services
                /\ DOMAIN last.retMap =
                     {"Telegram Premium - 1 Month", "Telegram Premium - 3 Months",
                      "Telegram Premium - 6 Months", "Telegram Premium - 1 Year",
                      "Telegram Stars"}
           ELSE /\ svcFile = NoFile
                /\ last.retMap = EmptyMap

C5_Witness ==
    /\ last.op = "get_services"
    /\ last.pre = "missing"
    /\ writable
    /\ last.retMap = default_services
    /\ svcFile.exists

\* C6: in every step that is a catalog save, completed, failed or cut short by
\* the death of the process after any of its steps, services.json holds what
\* it held before the save or the complete mapping being saved.
C6_SaveIsAllOrNothing ==
    [][/\ last'.op = "crash in _save_services"
          => (svcFile' = svcFile \/ svcFile' = JsonFile(last'.retMap))
       /\ last'.op \in {"add_service", "remove_service"}
          => (svcFile' = svcFile \/ svcFile' = JsonFile(services'))]_vars

C6_Witness ==
    /\ last.op = "crash in _save_services"
    /\ last.depth = 2
    /\ tmpFile = GarbageFile
    /\ svcFile.kind = "json"
    /\ svcFile.map # last.retMap

\* C7 as stated: in every step that is a death of the process inside the save
\* of set_welcome_image, welcome_image.json holds what it held before or the
\* complete new value.
C7_ImageSaveIsAllOrNothing ==
    [][last'.op = "crash in _save_welcome_image"
          => (imgFile' = imgFile \/ imgFile' = ImgJsonFile(last'.name))]_vars

\* C8: remove_service(name) for a name that is no key of the catalog returns
\* False and leaves the catalog in memory, services.json and the temp file as
\* they were.
C8_RemoveAbsentChangesNothing ==
    [][(last'.op = "remove_service" /\ last'.absent)
          => /\ ~last'.ok
             /\ services' = services
             /\ svcFile' = svcFile
             /\ tmpFile' = tmpFile]_vars

C8_Witness ==
    /\ last.op = "remove_service"
    /\ last.name = "X"
    /\ last.absent
    /\ ~last.ok
    /\ services # EmptyMap
    /\ svcFile = JsonFile(services)

\* C9: create_order returns an id that contains the user id, and the
\* get_order(id) called right after it shows that user and service, status
\* pending, and payment_method, payment_status and payment_confirmation_time
\* all None, also when a record was stored under the id before.
C9_NewOrderIsPendingAndUnpaid ==
    /\ last.op = "create_order"
          => (IdContains(last.id, last.user) /\ last.id \in DOMAIN orders)
    /\ (last.op = "get_order" /\ last.user # 0)
          => /\ last.order.user_id = last.user
             /\ last.order.service = last.name
             /\ last.order.status = "pending"
             /\ last.order.payment_method = None
             /\ last.order.payment_status = None
             /\ last.order.payment_confirmation_time = NoneTime

C9_Witness ==
    /\ last.op = "get_order"
    /\ last.user = 42
    /\ last.name = "X"
    /\ last.order.user_id = 42
    /\ last.order.status = "pending"

\* C10: update_payment_method(id, method) on a stored order returns True,
\* records the method, sets payment_status to pending and sets
\* payment_confirmation_time to None, whatever the payment state was.
C10_MethodResetsPayment ==
    (last.op = "update_payment_method" /\ last.found)
        => /\ last.ok
           /\ orders[last.id].payment_method = last.name
           /\ orders[last.id].payment_status = "pending"
           /\ orders[last.id].payment_confirmation_time = NoneTime

C10_Witness ==
    /\ last.op = "update_payment_method"
    /\ last.wasConfirmed
    /\ last.ok
    /\ orders[last.id].payment_status = "pending"
    /\ orders[last.id].payment_confirmation_time = NoneTime

\* C11: after update_payment_status(id, s) on an order the store holds, the
\* order's payment_confirmation_time is a time exactly when s is 'confirmed',
\* and it is None for every other s, also when the order was confirmed with a
\* time before the call.
C11_ConfirmationTimeIffConfirmed ==
    (last.op = "update_payment_status" /\ last.found) =>
        /\ last.id \in DOMAIN orders
        /\ last.ok
        /\ orders[last.id].payment_status = last.name
        /\ (orders[last.id].payment_confirmation_time.is = "time") <=> (last.name = "confirmed")
        /\ last.name # "confirmed" => orders[last.id].payment_confirmation_time = NoneTime

\* a confirmed order, with its time, was given another payment status
C11_Witness ==
    /\ last.op = "update_payment_status"
    /\ last.found
    /\ last.wasConfirmed
    /\ last.name = "rejected"
    /\ orders[last.id].payment_confirmation_time = NoneTime

\* C12: right after clear_user_session(u), which returns without an
\* exception also for a user without a session, get_user_session(u, k)
\* returns None for every key k, whatever u's session held.
C12_ClearedSessionIsEmpty ==
    /\ last.op = "clear_user_session" =>
          /\ last.exc = "none"
          /\ last.user \notin DOMAIN user_sessions
          /\ \A k \in SessionKeys :
                get_user_session(user_sessions, last.user, k) = NoValue
    /\ (last.op = "get_user_session" /\ last.afterClear) => last.value = NoValue

\* a session that held both keys was cleared, another user's session is kept
C12_Witness ==
    /\ last.op = "clear_user_session"
    /\ last.found
    /\ last.keys = SessionKeys
    /\ \E u \in DOMAIN user_sessions : u # last.user

\* C13: the add_feedback call made after n earlier ones returns n, and
\* every entry of the list holds its own index as id, whatever other calls of
\* the feedback store were made in between.
C13_FeedbackIdIsPosition ==
    /\ last.op = "add_feedback" => last.fid = last.count
    /\ \A i \in 1..Len(feedback) : feedback[i].id = i - 1
    /\ Len(feedback) = fbCalls

\* a feedback was added after an earlier one had left the pending state
C13_Witness ==
    /\ last.op = "add_feedback"
    /\ last.fid = 1
    /\ feedback[1].status # "pending"

\* C14: a create_order for a user in the second in which an order of that
\* user was created returns the id the store already holds, and the store
\* then holds one record under that id, the one of this call: the earlier
\* order is gone and the number of orders did not grow.
C14_SameSecondSameId ==
    [][(last'.op = "create_order" /\ OrderId(clock, last'.user) \in DOMAIN orders) =>
          /\ last'.id = OrderId(clock, last'.user)
          /\ last'.found
          /\ DOMAIN orders' = DOMAIN orders
          /\ orders'[last'.id].service = last'.name
          /\ orders'[last'.id].status = "pending"
          /\ orders'[last'.id].payment_method = None
          /\ orders'[last'.id].payment_status = None
          /\ \A id \in DOMAIN orders \ {last'.id} : orders'[id] = orders[id]]_vars

\* an order whose payment was confirmed was replaced by a second order of the
\* same user made in the same second
C14_Witness ==
    /\ last.op = "create_order"
    /\ last.found
    /\ last.wasConfirmed
    /\ orders[last.id].service = last.name
    /\ orders[last.id].payment_status = None

\* C18 as stated: set_welcome_image('') returns False and leaves the
\* reference and welcome_image.json as they were; a set_welcome_image(id)
\* that returns True makes get_welcome_image return id; a set_welcome_image
\* that returns False leaves what get_welcome_image returns as it was.
C18_FailedSetChangesNothing ==
    [][last'.op = "set_welcome_image" =>
          /\ last'.name = "" => (~last'.ok /\ wimg' = wimg /\ imgFile' = imgFile)
          /\ last'.ok => wimg' = last'.name
          /\ ~last'.ok => wimg' = wimg]_vars

\* C19: update_order_status, update_payment_method and update_payment_status
\* with an id that is no key of orders, and update_feedback_status with an id
\* outside 0..len-1, a negative one included, return False and leave orders
\* and feedback as they were.
C19_UnknownIdChangesNothing ==
    [][(/\ last'.op \in {"update_order_status", "update_payment_method",
                         "update_payment_status", "update_feedback_status"}
        /\ ~last'.found)
       => (~last'.ok /\ orders' = orders /\ feedback' = feedback)]_vars

\* update_feedback_status(-1, ...) returned False on a store that holds an
\* order and feedback
C19_Witness ==
    /\ last.op = "update_feedback_status"
    /\ last.fid < 0
    /\ ~last.ok
    /\ Len(feedback) > 0
    /\ \A i \in 1..Len(feedback) : feedback[i].status = "pending"
    /\ orders # EmptyOrders

\* C15 as stated: an order whose status is rejected keeps that status in
\* every event whose button the sender's chat showed.  (A step that leaves
\* a pending record under the id is the creation of another order with the
\* same id, not a change of this one.)
C15_RejectedIsTerminal ==
    [][\A id \in DOMAIN orders :
          (/\ orders[id].status = STATUS_REJECTED
           /\ last'.offered
           /\ id \in DOMAIN orders'
           /\ orders'[id].status # "pending")
          => orders'[id].status = STATUS_REJECTED]_vars

\* C16 as stated: an event whose button the sender's chat showed makes an
\* order completed only when the order is approved, holds a payment method
\* and has the payment status confirmed.
C16_CompletedOnlyWhenPaid ==
    [][\A id \in DOMAIN orders \cap DOMAIN orders' :
          (/\ orders'[id].status = STATUS_COMPLETED
           /\ orders[id].status # STATUS_COMPLETED
           /\ last'.offered)
          => /\ orders[id].status = STATUS_APPROVED
             /\ orders[id].payment_method # None
             /\ orders[id].payment_status = "confirmed"]_vars

\* C17 as stated: every price of the catalog is a number >= 0.
C17_PricesAreNonNegative ==
    \A name \in DOMAIN services :
        IsIntOrFloat(services[name]) /\ NonNegative(services[name])

\* a step that makes an order approved or rejected
OrderDecided ==
    \E id \in DOMAIN orders' :
       /\ orders'[id].status \in {STATUS_APPROVED, STATUS_REJECTED}
       /\ id \in DOMAIN orders => orders[id].status # orders'[id].status

\* a step that makes an order approved or rejected, changes the catalog, or
\* changes the welcome image reference
PrivilegedChange ==
    \/ OrderDecided
    \/ services' # services
    \/ wimg' # wimg

\* a step that changes the catalog, the welcome image reference, or the
\* file of either
CatalogOrImageChange ==
    \/ services' # services
    \/ svcFile' # svcFile
    \/ wimg' # wimg
    \/ imgFile' # imgFile

\* the directory holds services.json with the catalog of the store, and
\* holds welcome_image.json
FilesIntact ==
    /\ svcFile = JsonFile(services)
    /\ imgFile.exists

\* the step is an event whose sender is not in config.ADMIN_IDS
EventOfOther ==
    /\ last'.op = "event"
    /\ last'.user \notin AdminSet

AdminActionOn(id) ==
    \E sender \in AdminSet, action \in {"approve", "reject"},
       item_type \in {"order", "payment"}, message \in PressedMessages,
       delivered \in BOOLEAN, edited \in BOOLEAN :
        AdminApproval(sender, message, action, item_type, id, delivered, edited)

\* C21 as stated: an order whose status is pending is still in the store
\* with the status pending after every event that is not the approve or
\* reject action of an administrator on its id.
C21_PendingUntilAdminAction ==
    [][\A id \in DOMAIN orders :
          (/\ orders[id].status = "pending"
           /\ last'.op = "event"
           /\ ~AdminActionOn(id))
          => /\ id \in DOMAIN orders'
             /\ orders'[id].status = "pending"]_vars

\* C22 as stated: when the press of a payment method button by user u, on
\* a keyboard the chat of u showed, writes the method into an order, that
\* order belongs to u and its status is approved when the press is handled.
C22_MethodOnlyOnOwnApprovedOrder ==
    [][\A u \in Senders, m \in PaymentMethods :
          LET v == get_user_session(user_sessions, u, "current_order")
          IN  (/\ \E message \in PressedMessages, f \in FailingEdits :
                     PaymentMethodChosen(u, message, m, f)
               /\ last'.offered
               /\ v.is = "order"
               /\ v.id \in DOMAIN orders
               /\ orders' # orders)
              => /\ orders[v.id].user_id = u
                 /\ orders[v.id].status = STATUS_APPROVED]_vars

\* the number of sends the notification loop makes with success when the
\* sends to the administrators of `failing` raise: the loop has no handler
\* of its own, so the first send that raises is its last
sends_before_failure(failing) ==
    LET idx == {i \in 1..Len(ADMIN_IDS) : ADMIN_IDS[i] \in failing}
    IN  IF idx = {} THEN Len(ADMIN_IDS)
        ELSE (CHOOSE i \in idx : \A j \in idx : i <= j) - 1

\* the step is a selection of sender that creates an order, where the first
\* `failing_edits` edits of the pressed message raise and the first
\* `reached` sends of the notification loop are successful
OrderCreatedBy(sender, reached, failing_edits) ==
    /\ \E message \in PressedMessages, strike \in Strikes :
          \/ TelegramStars(sender, message, reached, failing_edits, strike, clock)
          \/ \E service_id \in ServiceCallbackIds, strike2 \in Strikes :
                ServiceSelected(sender, message, service_id, reached, failing_edits,
                                strike, strike2, clock)
          \/ \E duration \in Durations :
                PremiumSelected(sender, message, duration, reached, failing_edits,
                                strike, clock)
    /\ orders' # orders

\* C23 as stated: whichever sends to administrators fail, a selection that
\* creates an order leaves the order in the store and the approval keyboard
\* with the new order id in the chat of every administrator of ADMIN_IDS
\* whose send is not among the failing ones.
C23_EveryReachableAdminIsNotified ==
    [][\A sender \in Customers, failing \in SUBSET AdminSet :
          OrderCreatedBy(sender, sends_before_failure(failing), 0)
          => LET order_id == OrderId(clock, sender)
             IN  /\ order_id \in DOMAIN orders'
                 /\ \A admin_id \in AdminSet \ failing :
                       BagIn(get_admin_approval_keyboard(admin_id, order_id, "order"),
                             messages')]_vars

\* C24 as stated: the service of an order that a selection creates is a key
\* of the catalog as the handler's read of the catalog left it.
C24_OrderNamesCatalogService ==
    [][\A sender \in Customers, reached \in 0..Len(ADMIN_IDS), f \in FailingEdits :
          OrderCreatedBy(sender, reached, f)
          => orders'[OrderId(clock, sender)].service \in DOMAIN services']_vars

\* C25 as stated: across a call of add_service(name, price) or
\* remove_service(name), every other name that services.json holds keeps
\* its price in services.json, whoever wrote the entry.
C25_OtherPersistedPricesKept ==
    [][(/\ last'.op \in {"add_service", "remove_service"}
        /\ FileState(svcFile) = "valid"
        /\ svcFile.kind = "json")
       => \A n \in DOMAIN svcFile.map \ {last'.name} :
             /\ svcFile'.kind = "json"
             /\ n \in DOMAIN svcFile'.map
             /\ svcFile'.map[n] = svcFile.map[n]]_vars

\* C26 as stated: for every order that is approved and has no payment
\* method, the session of the order's user holds the order's id under the
\* key current_order.
C26_ApprovedOrderIsInSession ==
    \A id \in DOMAIN orders :
        (/\ orders[id].status = STATUS_APPROVED
         /\ orders[id].payment_method = None)
        => get_user_session(user_sessions, orders[id].user_id, "current_order")
              = SessionOrder(id)

====
